---- MODULE Spec2Model ----
(***************************************************************************)
(* Model of the archer-controller reconciler                               *)
(* (pkg/controller/service_controller.go, pkg/controller/util.go).         *)
(*                                                                         *)
(* Representation of Go values:                                            *)
(*   - a Go string that is only compared or concatenated is a TLA+ string; *)
(*   - an annotation value is a sequence of chunks whose concatenation is  *)
(*     the Go string: one chunk for the whole value, except the tags value *)
(*     (chunks are single spaces and maximal space-free words) and the     *)
(*     port value (chunks are single characters);                          *)
(*   - a Go map is a function whose DOMAIN is the set of present keys;     *)
(*   - a Go pointer is <<>> (nil) or <<v>> (pointer to v).                 *)
(***************************************************************************)
EXTENDS Integers, Sequences, FiniteSets, TLC

VARIABLES
    svc,      \* the cluster's Service objects, by name
    remote,   \* the broker's endpoint services (a set of models.Service)
    nextId,   \* number of the next identifier the broker hands out
    last,     \* the service of the Reconcile that ran in the last step, or "none"
    calls,    \* the broker calls of that Reconcile, in order
    writes,   \* the r.Update calls of that Reconcile, in order
    result,   \* its return: "ok", "err", or "none" when the last step was no Reconcile
    owner,    \* history: <<id, s>> when a Reconcile of s created endpoint service id
    probe,    \* a pair of models.Service handed to serviceEqual, and its result
    inv       \* the Reconcile invocations in progress when they run step by step

vars == <<svc, remote, nextId, last, calls, writes, result, owner, probe, inv>>

----------------------------------------------------------------------------
(* Bounds *)

\* identifiers the broker hands out: id1 .. id<MaxIds>
MaxIds == 2

----------------------------------------------------------------------------
(* Go values *)

Nil == <<>>
Ptr(v) == <<v>>

Range(q) == {q[i] : i \in 1..Len(q)}

RECURSIVE GoString(_)
\* the Go string a chunk sequence stands for
GoString(chunks) ==
    IF chunks = <<>> THEN "" ELSE Head(chunks) \o GoString(Tail(chunks))

RECURSIVE SplitFrom(_, _)
SplitFrom(chunks, cur) ==
    IF chunks = <<>> THEN <<cur>>
    ELSE IF Head(chunks) = " " THEN <<cur>> \o SplitFrom(Tail(chunks), "")
    ELSE SplitFrom(Tail(chunks), cur \o Head(chunks))

\* strings.Split(s, " "): the pieces between single spaces, empty pieces kept
Split(chunks) == SplitFrom(chunks, "")

----------------------------------------------------------------------------
(* util.go *)

\* the controller's -annotation-key prefix
AnnotationKey == "cloud.sap"

makeAnnotation(prefix, annotationKey) == prefix \o "/" \o annotationKey

\* variant: the presence of the annotation is taken for "true"
getAnnotationBoolean_Presence(key, o, default) ==
    IF key \notin DOMAIN o.Annotations THEN default ELSE TRUE

getAnnotationBoolean(key, o, default) ==
    IF key \notin DOMAIN o.Annotations THEN default
    ELSE o.Annotations[key] = <<"true">>

\* (v, ok)
getAnnotationString(key, o) ==
    IF key \notin DOMAIN o.Annotations THEN [v |-> <<>>, ok |-> FALSE]
    ELSE [v |-> o.Annotations[key], ok |-> TRUE]

----------------------------------------------------------------------------
(* Annotation constants of service_controller.go *)

AnnotationEndpointServiceCreate == "archer-create"
AnnotationEndpointServiceNetwork == "archer-network-id"
AnnotationEndpointServiceName == "archer-service-name"
AnnotationEndpointServiceProxyProtocol == "archer-proxy-protocol"
AnnotationEndpointServiceVisibility == "archer-visibility"
AnnotationEndpointServiceRequireApproval == "archer-require-approval"
AnnotationEndpointServiceTags == "archer-tags"
AnnotationEndpointServiceAvailabilityZone == "archer-availability-zone"
AnnotationEndpointServicePort == "archer-port"

----------------------------------------------------------------------------
(* strconv.Atoi and the int32 conversion, on 16-bit limbs (little-endian),  *)
(* so that a 64-bit int is computed without leaving the checker's integers *)

Base == 65536

DigitChars == {"0", "1", "2", "3", "4", "5", "6", "7", "8", "9"}

DigitVal(c) ==
    CASE c = "0" -> 0 [] c = "1" -> 1 [] c = "2" -> 2 [] c = "3" -> 3
      [] c = "4" -> 4 [] c = "5" -> 5 [] c = "6" -> 6 [] c = "7" -> 7
      [] c = "8" -> 8 [] c = "9" -> 9

ZeroLimbs == <<0, 0, 0, 0>>

\* one limb of limbs * 10 + d: the limbs computed so far, and the carry
MulAddLimb(acc, limb) ==
    [limbs |-> Append(acc.limbs, (limb * 10 + acc.carry) % Base),
     carry |-> (limb * 10 + acc.carry) \div Base]

\* limbs * 10 + d, with the carry out of the fourth limb
MulAdd(limbs, d) ==
    MulAddLimb(MulAddLimb(MulAddLimb(MulAddLimb(
        [limbs |-> <<>>, carry |-> d], limbs[1]), limbs[2]), limbs[3]), limbs[4])

RECURSIVE ParseDigits(_, _, _)
ParseNext(chars, m, over) == ParseDigits(chars, m.limbs, over \/ m.carry > 0)

\* the magnitude of a digit string; bad: a non-digit; over: more than 64 bits
ParseDigits(chars, limbs, over) ==
    IF chars = <<>> THEN [bad |-> FALSE, over |-> over, limbs |-> limbs]
    ELSE IF Head(chars) \notin DigitChars
    THEN [bad |-> TRUE, over |-> over, limbs |-> limbs]
    ELSE ParseNext(Tail(chars), MulAdd(limbs, DigitVal(Head(chars))), over)

\* the magnitude p is above 2^63 - 1 (positive) or above 2^63 (negative)
OutOfRange(neg, p) ==
    \/ p.over
    \/ p.limbs[4] > 32768
    \/ /\ p.limbs[4] = 32768
       /\ ~(neg /\ p.limbs[1] = 0 /\ p.limbs[2] = 0 /\ p.limbs[3] = 0)

AtoiResult(neg, digits, p) ==
    IF digits = <<>> \/ p.bad \/ OutOfRange(neg, p)
    THEN [err |-> TRUE, neg |-> FALSE, limbs |-> ZeroLimbs]
    ELSE [err |-> FALSE, neg |-> neg, limbs |-> p.limbs]

AtoiDigits(neg, digits) == AtoiResult(neg, digits, ParseDigits(digits, ZeroLimbs, FALSE))

\* strconv.Atoi on a 64-bit platform: (value as sign and limbs, err)
Atoi(chars) ==
    IF chars # <<>> /\ Head(chars) \in {"+", "-"}
    THEN AtoiDigits(Head(chars) = "-", Tail(chars))
    ELSE AtoiDigits(FALSE, chars)

\* int32(p): the low 32 bits of the two's complement of p, read as signed
ToInt32(neg, limbs) ==
    LET m0 == limbs[1]
        m1 == limbs[2]
        n0 == IF neg THEN (Base - m0) % Base ELSE m0
        n1 == IF neg THEN (2 * Base - m1 - (IF m0 # 0 THEN 1 ELSE 0)) % Base ELSE m1
    IN  IF n1 >= 32768 THEN (n1 - Base) * Base + n0 ELSE n1 * Base + n0

----------------------------------------------------------------------------
(* The reconciler's configuration and the Service objects *)

\* r.NetworkID, from the -network-id flag
NetworkID == "net0"

Services == {"A", "B"}

UIDOf(s) == IF s = "A" THEN "u1" ELSE "u2"

ClusterIPOf(s) == IF s = "A" THEN "10.0.0.1" ELSE "10.0.0.2"

\* a foreign finalizer, owned by some other controller
OtherFinalizer == "example.com/other"

\* a corev1.Service as the API server stores it
NewService(s, finalizers) ==
    [Exists |-> TRUE,
     Namespace |-> "default",
     Name |-> s,
     UID |-> UIDOf(s),
     DeletionTimestamp |-> FALSE,
     Finalizers |-> finalizers,
     Annotations |-> [k \in {} |-> <<>>],
     ClusterIP |-> ClusterIPOf(s),
     Ports |-> <<80, 443>>]

\* controllerutil
ContainsFinalizer(o, f) == f \in o.Finalizers
\* variant: the finalizer is not put on the object
AddFinalizer_Dropped(o, f) == o
AddFinalizer(o, f) == [o EXCEPT !.Finalizers = @ \cup {f}]
RemoveFinalizer(o, f) == [o EXCEPT !.Finalizers = @ \ {f}]

\* svc.Annotations[key] = value
SetAnnotation(o, key, value) ==
    [o EXCEPT !.Annotations =
        [k \in DOMAIN o.Annotations \cup {key} |->
            IF k = key THEN value ELSE o.Annotations[k]]]

DeleteAnnotation(o, key) ==
    [o EXCEPT !.Annotations = [k \in DOMAIN o.Annotations \ {key} |-> o.Annotations[k]]]

\* the API server stores an object; one that is being deleted and has no
\* finalizer left is removed
Persist(o) ==
    IF o.DeletionTimestamp /\ o.Finalizers = {} THEN [o EXCEPT !.Exists = FALSE] ELSE o

----------------------------------------------------------------------------
(* getBodyFromService *)

\* the body, given the port annotation and its integer value p
bodyWithPort(o, port, p) ==
    LET name == getAnnotationString(makeAnnotation(AnnotationKey, AnnotationEndpointServiceName), o)
        network == getAnnotationString(makeAnnotation(AnnotationKey, AnnotationEndpointServiceNetwork), o)
        tags == getAnnotationString(makeAnnotation(AnnotationKey, AnnotationEndpointServiceTags), o)
        zone == getAnnotationString(makeAnnotation(AnnotationKey, AnnotationEndpointServiceAvailabilityZone), o)
        visibility == getAnnotationString(makeAnnotation(AnnotationKey, AnnotationEndpointServiceVisibility), o)
        body ==
            [ID |-> "",
             Name |-> IF name.ok THEN GoString(name.v)
                      ELSE o.Namespace \o "-" \o o.Name,
             Description |-> "Kubernetes service " \o o.Namespace \o "/" \o o.Name,
             Enabled |-> Nil,
             IPAddresses |-> <<o.ClusterIP>>,
             NetworkID |-> IF network.ok THEN Ptr(GoString(network.v)) ELSE Ptr(NetworkID),
             Port |-> IF port.ok THEN ToInt32(p.neg, p.limbs) ELSE o.Ports[1],
             ProxyProtocol |->
                 IF getAnnotationBoolean(makeAnnotation(AnnotationKey, AnnotationEndpointServiceProxyProtocol), o, FALSE)
                 THEN Ptr(TRUE) ELSE Nil,
             RequireApproval |->
                 IF getAnnotationBoolean(makeAnnotation(AnnotationKey, AnnotationEndpointServiceRequireApproval), o, FALSE)
                 THEN Ptr(TRUE) ELSE Nil,
             Tags |-> IF tags.ok THEN <<"kubernetes", o.UID>> \o Split(tags.v)
                      ELSE <<"kubernetes", o.UID>>,
             AvailabilityZone |-> IF zone.ok THEN Ptr(GoString(zone.v)) ELSE Nil,
             Visibility |-> IF visibility.ok THEN Ptr(GoString(visibility.v)) ELSE Ptr("public")]
    IN  IF port.ok /\ p.err THEN [err |-> TRUE]
        ELSE IF ~port.ok /\ Len(o.Ports) = 0 THEN [err |-> TRUE]
        ELSE [err |-> FALSE, body |-> body]

bodyFromPort(o, port) == bodyWithPort(o, port, Atoi(port.v))

getBodyFromService(o) ==
    bodyFromPort(o, getAnnotationString(makeAnnotation(AnnotationKey, AnnotationEndpointServicePort), o))

----------------------------------------------------------------------------
(* serviceEqual *)

\* the loop over s1.IPAddresses: each is found in s2.IPAddresses, as it is or
\* as the remote one followed by "/32"
ipsFound(s1, s2) ==
    \A i \in 1..Len(s1.IPAddresses) :
        \E j \in 1..Len(s2.IPAddresses) :
            \/ s1.IPAddresses[i] = s2.IPAddresses[j]
            \/ s1.IPAddresses[i] = s2.IPAddresses[j] \o "/32"

\* variant: the tags are compared position by position
tagsFound_Positional(s1, s2) ==
    \A i \in 1..Len(s1.Tags) : s1.Tags[i] = s2.Tags[i]

\* the loop over s1.Tags
tagsFound(s1, s2) ==
    \A i \in 1..Len(s1.Tags) : \E j \in 1..Len(s2.Tags) : s1.Tags[i] = s2.Tags[j]

\* both pointers set and the values different
bothDiffer(p1, p2) == p1 # Nil /\ p2 # Nil /\ p1[1] # p2[1]

\* *s2.Enabled is read without a nil check: with s1.Enabled set and
\* s2.Enabled nil the call panics (nil pointer dereference) once the names
\* and the descriptions are found equal
serviceEqualPanics(s1, s2) ==
    /\ s1.Name = s2.Name
    /\ s1.Description = s2.Description
    /\ s1.Enabled # Nil
    /\ s2.Enabled = Nil

\* the value returned when the call does not panic
serviceEqual(s1, s2) ==
    IF s1.Name # s2.Name THEN FALSE
    ELSE IF s1.Description # s2.Description THEN FALSE
    ELSE IF s1.Enabled # Nil /\ s1.Enabled[1] # s2.Enabled[1] THEN FALSE
    ELSE IF Len(s1.IPAddresses) # Len(s2.IPAddresses) THEN FALSE
    ELSE IF ~ipsFound(s1, s2) THEN FALSE
    ELSE IF bothDiffer(s1.NetworkID, s2.NetworkID) THEN FALSE
    ELSE IF s1.Port # s2.Port THEN FALSE
    ELSE IF bothDiffer(s1.ProxyProtocol, s2.ProxyProtocol) THEN FALSE
    ELSE IF bothDiffer(s1.RequireApproval, s2.RequireApproval) THEN FALSE
    ELSE IF Len(s1.Tags) # Len(s2.Tags) THEN FALSE
    ELSE IF ~tagsFound(s1, s2) THEN FALSE
    ELSE IF bothDiffer(s1.Visibility, s2.Visibility) THEN FALSE
    ELSE TRUE

----------------------------------------------------------------------------
(* The broker (the archer API), as the reconciler's client sees it *)

\* list by tags: the endpoint services whose tags include every given tag
GetService(rem, tags) ==
    {m \in rem : \A i \in 1..Len(tags) : tags[i] \in Range(m.Tags)}

IdName(n) == "id" \o ToString(n)

\* create: the body is stored under a fresh identifier
PostService(rem, nid, body) == rem \cup {[body EXCEPT !.ID = IdName(nid)]}

\* a pointer field of an update is applied when it is set
Patch(old, p) == IF p = Nil THEN old ELSE p[1]
PatchPtr(old, p) == IF p = Nil THEN old ELSE p
PatchSlice(old, q) == IF Len(q) = 0 THEN old ELSE q

\* update by id with a models.ServiceUpdatable: the fields it carries replace
\* the stored ones, every other field stays
PutServiceServiceID(rem, id, b) ==
    {IF m.ID # id THEN m
     ELSE [m EXCEPT !.Description = Patch(@, b.Description),
                    !.Enabled = PatchPtr(@, b.Enabled),
                    !.IPAddresses = PatchSlice(@, b.IPAddresses),
                    !.Name = Patch(@, b.Name),
                    !.Port = Patch(@, b.Port),
                    !.ProxyProtocol = PatchPtr(@, b.ProxyProtocol),
                    !.RequireApproval = PatchPtr(@, b.RequireApproval),
                    !.Tags = PatchSlice(@, b.Tags),
                    !.Visibility = PatchPtr(@, b.Visibility)] : m \in rem}

\* delete by id
DeleteServiceServiceID(rem, id) == {m \in rem : m.ID # id}

----------------------------------------------------------------------------
(* One Reconcile, as a function of the stored object, the broker's state    *)
(* and the calls that fail: fb is the number of the broker call that fails, *)
(* fu the number of the r.Update call that fails (0: none).                 *)
(* st.o is the in-memory svc, st.stored what the API server holds.          *)

Begin(o, rem, nid) ==
    [o |-> o, stored |-> o, remote |-> rem, nextId |-> nid,
     calls |-> <<>>, writes |-> <<>>, err |-> FALSE]

\* the position of the next broker call or r.Update in the order in which
\* the run makes them
Step(st) == Len(st.calls) + Len(st.writes) + 1

\* r.Update(ctx, svc)
Update(st, fu) ==
    IF Len(st.writes) + 1 = fu
    THEN [st EXCEPT !.writes = Append(@, [ok |-> FALSE, at |-> Step(st)]), !.err = TRUE]
    ELSE [st EXCEPT !.stored = Persist(st.o), !.o = Persist(st.o),
                    !.writes = Append(@, [ok |-> TRUE, at |-> Step(st)])]

\* the next broker call fails
CallFails(st, fb) == Len(st.calls) + 1 = fb

Call(st, op, id, req, ok) ==
    [op |-> op, id |-> id, req |-> req, ok |-> ok, at |-> Step(st)]

\* variant: the error of the broker's delete call is logged and dropped
deleteEndpointService_Swallow(st, fb) ==
    LET id == getAnnotationString(makeAnnotation(AnnotationKey, "id"), st.o)
        sid == GoString(id.v)
        ok == ~CallFails(st, fb) /\ \E m \in st.remote : m.ID = sid
    IN  IF ~id.ok THEN st
        ELSE [st EXCEPT !.calls = Append(@, Call(st, "delete", sid, [ID |-> sid], ok)),
                        !.remote = IF ok THEN DeleteServiceServiceID(@, sid) ELSE @]

deleteEndpointService(st, fb) ==
    LET id == getAnnotationString(makeAnnotation(AnnotationKey, "id"), st.o)
        sid == GoString(id.v)
        \* the broker answers not-found for an unknown identifier
        ok == ~CallFails(st, fb) /\ \E m \in st.remote : m.ID = sid
    IN  IF ~id.ok THEN st
        ELSE [st EXCEPT !.calls = Append(@, Call(st, "delete", sid, [ID |-> sid], ok)),
                        !.remote = IF ok THEN DeleteServiceServiceID(@, sid) ELSE @,
                        !.err = ~ok]

createEndpointService(st, fb, fu) ==
    LET b == getBodyFromService(st.o)
        ok == ~CallFails(st, fb)
        id == IdName(st.nextId)
        posted == [st EXCEPT !.calls = Append(@, Call(st, "post", "", b.body, ok)),
                             !.remote = IF ok THEN PostService(@, st.nextId, b.body) ELSE @,
                             !.nextId = IF ok THEN @ + 1 ELSE @,
                             !.err = ~ok]
    IN  IF b.err THEN [st EXCEPT !.err = TRUE]
        ELSE IF ~ok THEN posted
        ELSE Update([posted EXCEPT !.o =
                        SetAnnotation(@, makeAnnotation(AnnotationKey, "archer-id"), <<id>>)], fu)

\* variant: the update also carries the network id
ServiceUpdatable_WithNetwork(body) ==
    [Description |-> Ptr(body.Description),
     Enabled |-> body.Enabled,
     IPAddresses |-> body.IPAddresses,
     Name |-> Ptr(body.Name),
     NetworkID |-> body.NetworkID,
     Port |-> Ptr(body.Port),
     ProxyProtocol |-> body.ProxyProtocol,
     RequireApproval |-> body.RequireApproval,
     Tags |-> body.Tags,
     Visibility |-> body.Visibility]

\* the models.ServiceUpdatable built from the body
ServiceUpdatable(body) ==
    [Description |-> Ptr(body.Description),
     Enabled |-> body.Enabled,
     IPAddresses |-> body.IPAddresses,
     Name |-> Ptr(body.Name),
     Port |-> Ptr(body.Port),
     ProxyProtocol |-> body.ProxyProtocol,
     RequireApproval |-> body.RequireApproval,
     Tags |-> body.Tags,
     Visibility |-> body.Visibility]

updateEndpointService(st, m, fb) ==
    LET bd == getBodyFromService(st.o)
        body == bd.body
        b == ServiceUpdatable(body)
        ok == ~CallFails(st, fb)
    IN  IF bd.err THEN [st EXCEPT !.err = TRUE]
        ELSE IF serviceEqual(body, m) THEN st
        ELSE [st EXCEPT !.calls = Append(@, Call(st, "put", m.ID, b, ok)),
                        !.remote = IF ok THEN PutServiceServiceID(@, m.ID, b) ELSE @,
                        !.err = ~ok]

\* variant: several matches are resolved by updating one of them
reconcileEndpointService_FirstWins(st, fb, fu) ==
    LET tags == <<"kubernetes", st.o.UID>>
        ok == ~CallFails(st, fb)
        listed == [st EXCEPT !.calls = Append(@, Call(st, "list", "", [Tags |-> tags], ok)),
                             !.err = ~ok]
        items == GetService(st.remote, tags)
    IN  IF ~ok THEN listed
        ELSE IF Cardinality(items) = 0 THEN createEndpointService(listed, fb, fu)
        ELSE updateEndpointService(listed, CHOOSE m \in items : TRUE, fb)

reconcileEndpointService(st, fb, fu) ==
    LET tags == <<"kubernetes", st.o.UID>>
        ok == ~CallFails(st, fb)
        listed == [st EXCEPT !.calls = Append(@, Call(st, "list", "", [Tags |-> tags], ok)),
                             !.err = ~ok]
        items == GetService(st.remote, tags)
    IN  IF ~ok THEN listed
        ELSE IF Cardinality(items) = 0 THEN createEndpointService(listed, fb, fu)
        ELSE IF Cardinality(items) = 1
        THEN updateEndpointService(listed, CHOOSE m \in items : TRUE, fb)
        ELSE [listed EXCEPT !.err = TRUE]

ReconcileRun(o, rem, nid, fb, fu) ==
    LET st0 == Begin(o, rem, nid)
        createAnnotation == makeAnnotation(AnnotationKey, AnnotationEndpointServiceCreate)
        archerFinalizerName == makeAnnotation(AnnotationKey, "finalizer")
    IN  \* r.Get: not found is ignored
        IF ~o.Exists THEN st0
        ELSE IF ~getAnnotationBoolean(createAnnotation, o, FALSE) THEN st0
        ELSE IF ~o.DeletionTimestamp
        THEN LET st1 == IF ~ContainsFinalizer(o, archerFinalizerName)
                        THEN Update([st0 EXCEPT !.o = AddFinalizer(@, archerFinalizerName)], fu)
                        ELSE st0
             IN  IF st1.err THEN st1 ELSE reconcileEndpointService(st1, fb, fu)
        ELSE LET st1 == IF ContainsFinalizer(o, archerFinalizerName)
                        THEN deleteEndpointService(st0, fb)
                        ELSE st0
             IN  IF st1.err THEN st1
                 ELSE Update([st1 EXCEPT !.o = RemoveFinalizer(@, archerFinalizerName)], fu)

----------------------------------------------------------------------------
(* The state machine *)

\* the annotation values the users write in the two-service scenario: A is
\* tracked, untracked and given an id annotation by hand, B is tracked and
\* tagged with A's UID
Edits(s) ==
    IF s = "A"
    THEN {<<AnnotationEndpointServiceCreate, <<"true">>>>,
          <<AnnotationEndpointServiceCreate, <<"false">>>>,
          <<AnnotationEndpointServiceCreate, <<"True">>>>,
          <<"id", <<"id1">>>>}
    ELSE {<<AnnotationEndpointServiceCreate, <<"true">>>>,
          <<AnnotationEndpointServiceTags, <<"u1">>>>}

\* the annotations the users remove
Removals(s) == IF s = "A" THEN {AnnotationEndpointServiceCreate} ELSE {}

\* the annotation values the users write in the one-service scenario, where
\* the configuration of a tracked service changes between reconciles
MirrorEdits ==
    {<<AnnotationEndpointServiceCreate, <<"true">>>>,
     <<AnnotationEndpointServiceProxyProtocol, <<"true">>>>,
     <<AnnotationEndpointServiceProxyProtocol, <<"false">>>>,
     <<AnnotationEndpointServiceRequireApproval, <<"true">>>>,
     <<AnnotationEndpointServiceNetwork, <<"net1">>>>,
     <<AnnotationEndpointServiceTags, <<"a", " ", "b">>>>,
     <<AnnotationEndpointServiceVisibility, <<"private">>>>,
     <<AnnotationEndpointServicePort, <<"x">>>>,
     <<AnnotationEndpointServiceAvailabilityZone, <<"az1">>>>}

MirrorRemovals ==
    {AnnotationEndpointServiceProxyProtocol, AnnotationEndpointServiceRequireApproval,
     AnnotationEndpointServicePort}

\* no pair is being compared
NoProbe == [done |-> TRUE]

\* the workers that run Reconcile step by step
Workers == {1, 2}

\* a worker that is not inside Reconcile
Idle == [pc |-> "idle"]

NoInvocations == [w \in Workers |-> Idle]

Init ==
    /\ \E other \in SUBSET {"A"} :
          svc = [s \in Services |->
                    NewService(s, IF s \in other THEN {OtherFinalizer} ELSE {})]
    /\ remote = {}
    /\ nextId = 1
    /\ last = "none"
    /\ calls = <<>>
    /\ writes = <<>>
    /\ result = "none"
    /\ owner = {}
    /\ probe = NoProbe
    /\ inv = NoInvocations

\* a step of the environment: no Reconcile ran
NoReconcile ==
    /\ last' = "none"
    /\ calls' = <<>>
    /\ writes' = <<>>
    /\ result' = "none"

\* a user sets an annotation
Annotate(s, e) ==
    /\ svc[s].Exists
    /\ ~svc[s].DeletionTimestamp
    /\ svc' = [svc EXCEPT ![s] = SetAnnotation(@, makeAnnotation(AnnotationKey, e[1]), e[2])]
    /\ NoReconcile
    /\ UNCHANGED <<remote, nextId, owner, probe, inv>>

\* a user removes an annotation
Unannotate(s, k) ==
    /\ svc[s].Exists
    /\ ~svc[s].DeletionTimestamp
    /\ makeAnnotation(AnnotationKey, k) \in DOMAIN svc[s].Annotations
    /\ svc' = [svc EXCEPT ![s] = DeleteAnnotation(@, makeAnnotation(AnnotationKey, k))]
    /\ NoReconcile
    /\ UNCHANGED <<remote, nextId, owner, probe, inv>>

\* a user deletes the service: the API server sets the deletion timestamp,
\* and removes the object when no finalizer holds it
DeleteService(s) ==
    /\ svc[s].Exists
    /\ ~svc[s].DeletionTimestamp
    /\ svc' = [svc EXCEPT ![s] = Persist([@ EXCEPT !.DeletionTimestamp = TRUE])]
    /\ NoReconcile
    /\ UNCHANGED <<remote, nextId, owner, probe, inv>>

\* the other controller finishes its cleanup and removes its finalizer
ReleaseOther(s) ==
    /\ svc[s].Exists
    /\ svc[s].DeletionTimestamp
    /\ OtherFinalizer \in svc[s].Finalizers
    /\ svc' = [svc EXCEPT ![s] = Persist(RemoveFinalizer(@, OtherFinalizer))]
    /\ NoReconcile
    /\ UNCHANGED <<remote, nextId, owner, probe, inv>>

\* the manager delivers a request for s and Reconcile runs to its return,
\* with the fb-th broker call and the fu-th r.Update of the run failing
ReconcileWith(s, fb, fu) ==
    LET out == ReconcileRun(svc[s], remote, nextId, fb, fu)
    IN  /\ out.nextId <= MaxIds + 1
        /\ svc' = [svc EXCEPT ![s] = out.stored]
        /\ remote' = out.remote
        /\ nextId' = out.nextId
        /\ last' = s
        /\ calls' = out.calls
        /\ writes' = out.writes
        /\ result' = IF out.err THEN "err" ELSE "ok"
        /\ owner' = owner \cup
              {<<m.ID, s>> : m \in {x \in out.remote : \A y \in remote : y.ID # x.ID}}
        /\ UNCHANGED <<probe, inv>>

\* the failing calls are chosen among the calls the run makes
Reconcile(s) ==
    LET full == ReconcileRun(svc[s], remote, nextId, 0, 0)
    IN  \E fb \in 0..Len(full.calls), fu \in 0..Len(full.writes) :
            ReconcileWith(s, fb, fu)

\* two services, one of which tags its endpoint service with the other's UID
Next ==
    \E s \in Services :
        \/ \E e \in Edits(s) : Annotate(s, e)
        \/ \E k \in Removals(s) : Unannotate(s, k)
        \/ DeleteService(s)
        \/ ReleaseOther(s)
        \/ Reconcile(s)

Spec == Init /\ [][Next]_vars

\* one service whose configuration annotations change between reconciles
NextMirror ==
    \/ \E e \in MirrorEdits : Annotate("A", e)
    \/ \E k \in MirrorRemovals : Unannotate("A", k)
    \/ DeleteService("A")
    \/ ReleaseOther("A")
    \/ Reconcile("A")

SpecMirror == Init /\ [][NextMirror]_vars

\* one service that is tracked, untracked and deleted, under a manager that
\* keeps delivering requests for it: a Reconcile that returned an error is
\* requeued, and the broker and the API server do not fail forever
NextLive ==
    \/ \E e \in Edits("A") : Annotate("A", e)
    \/ \E k \in Removals("A") : Unannotate("A", k)
    \/ DeleteService("A")
    \/ ReleaseOther("A")
    \/ Reconcile("A")

SpecLive == Init /\ [][NextLive]_vars /\ WF_vars(ReconcileWith("A", 0, 0))

----------------------------------------------------------------------------
(* serviceEqual on its own: a desired and a remote models.Service are drawn *)
(* from bounded sets and compared                                           *)

\* addresses per side
MaxIPs == 2

IPSamples == {"10.0.0.1", "10.0.0.1/32", "10.0.0.2"}

IPLists == UNION {[1..n -> IPSamples] : n \in 1..MaxIPs}

\* the desired state of a service without configuration annotations
ProbeDesired == getBodyFromService(NewService("A", {})).body

\* the same, as the broker stores it
ProbeRemote == [ProbeDesired EXCEPT !.ID = IdName(1)]

\* pairs that differ in their addresses, and in the port
IPProbes ==
    {[done |-> FALSE,
      s1 |-> [ProbeDesired EXCEPT !.IPAddresses = q1],
      s2 |-> [ProbeRemote EXCEPT !.IPAddresses = q2, !.Port = pt]] :
        q1 \in IPLists, q2 \in IPLists, pt \in {80, 443}}

\* tags per side
MaxTags == 3

TagNames == {"kubernetes", "u1", "a"}

TagLists == UNION {[1..n -> TagNames] : n \in 0..MaxTags}

\* pairs that differ in their tags
TagProbes ==
    {[done |-> FALSE,
      s1 |-> [ProbeDesired EXCEPT !.Tags = t1],
      s2 |-> [ProbeRemote EXCEPT !.Tags = t2]] :
        t1 \in TagLists, t2 \in TagLists}

\* a pointer field of the desired side: unset, or one of two values
DesiredPtrs(a, b) == {Nil, Ptr(a), Ptr(b)}

\* a pointer field of the remote side: unset, or the first value
RemotePtrs(a) == {Nil, Ptr(a)}

\* pairs that differ in which optional fields are set, and to what
OptionalProbes ==
    {[done |-> FALSE,
      s1 |-> [ProbeDesired EXCEPT !.Enabled = e1, !.NetworkID = n1, !.ProxyProtocol = p1,
                                  !.RequireApproval = r1, !.Visibility = v1],
      s2 |-> [ProbeRemote EXCEPT !.Enabled = e2, !.NetworkID = n2, !.ProxyProtocol = p2,
                                 !.RequireApproval = r2, !.Visibility = v2]] :
        e1 \in DesiredPtrs(TRUE, FALSE), e2 \in DesiredPtrs(TRUE, FALSE),
        n1 \in DesiredPtrs("net0", "net1"), n2 \in RemotePtrs("net0"),
        p1 \in DesiredPtrs(TRUE, FALSE), p2 \in RemotePtrs(TRUE),
        r1 \in DesiredPtrs(TRUE, FALSE), r2 \in RemotePtrs(TRUE),
        v1 \in DesiredPtrs("public", "private"), v2 \in RemotePtrs("public")}

\* pairs that differ in name, description and port, and in the enablement
ExactProbes ==
    {[done |-> FALSE,
      s1 |-> [ProbeDesired EXCEPT !.Enabled = e1],
      s2 |-> [ProbeRemote EXCEPT !.Enabled = e2, !.Name = nm, !.Description = ds,
                                 !.Port = pt]] :
        e1 \in DesiredPtrs(TRUE, FALSE), e2 \in DesiredPtrs(TRUE, FALSE),
        nm \in {ProbeDesired.Name, "other"},
        ds \in {ProbeDesired.Description, "other"},
        pt \in {80, 443}}

ProbeInputs == IPProbes \cup TagProbes \cup OptionalProbes \cup ExactProbes

InitEqual ==
    /\ svc = [s \in Services |-> NewService(s, {})]
    /\ remote = {}
    /\ nextId = 1
    /\ last = "none"
    /\ calls = <<>>
    /\ writes = <<>>
    /\ result = "none"
    /\ owner = {}
    /\ probe \in ProbeInputs
    /\ inv = NoInvocations

\* updateEndpointService's call of serviceEqual(body, m)
Compare ==
    /\ ~probe.done
    /\ probe' = IF serviceEqualPanics(probe.s1, probe.s2)
                 THEN [done |-> TRUE, s1 |-> probe.s1, s2 |-> probe.s2, panic |-> TRUE]
                 ELSE [done |-> TRUE, s1 |-> probe.s1, s2 |-> probe.s2, panic |-> FALSE,
                       equal |-> serviceEqual(probe.s1, probe.s2)]
    /\ UNCHANGED <<svc, remote, nextId, last, calls, writes, result, owner, inv>>

SpecEqual == InitEqual /\ [][Compare]_vars

----------------------------------------------------------------------------
(* Vocabulary of the properties *)

FinalizerName == makeAnnotation(AnnotationKey, "finalizer")
CreateKey == makeAnnotation(AnnotationKey, AnnotationEndpointServiceCreate)

\* the annotation createEndpointService records the identifier under
RecordedIdKey == makeAnnotation(AnnotationKey, "archer-id")

\* the correlation tags of a service
CorrelationTags(s) == <<"kubernetes", UIDOf(s)>>

\* the endpoint services the lookup for s returns
Matches(rem, s) == GetService(rem, CorrelationTags(s))

\* the endpoint services a Reconcile of s created
CreatedFor(rem, s) == {m \in rem : <<m.ID, s>> \in owner}

\* the create annotation is present and "true"
CreateIsTrue(o) ==
    CreateKey \in DOMAIN o.Annotations /\ o.Annotations[CreateKey] = <<"true">>

\* the broker calls of a call log that change the broker
BrokerWrites(log) == {i \in 1..Len(log) : log[i].op \in {"post", "put", "delete"}}

----------------------------------------------------------------------------
(* C1: cleanup guarantee. Whenever a Reconcile of a service whose deletion  *)
(* timestamp is set removes the finalizer and returns success, no endpoint  *)
(* service that the controller created for that service (tags containing   *)
(* "kubernetes" and the service's UID) is left in the broker.               *)

C1_CleanupGuarantee ==
    [][\A s \in Services :
          (/\ last' = s
           /\ svc[s].DeletionTimestamp
           /\ FinalizerName \in svc[s].Finalizers
           /\ FinalizerName \notin svc'[s].Finalizers
           /\ result' = "ok")
          => CreatedFor(remote', s) \cap Matches(remote', s) = {}]_vars

(* C2: finalizer lifecycle. For a tracked service (create annotation true,  *)
(* finalizer present) whose identifier was written to its annotations, the  *)
(* Reconcile that finds the deletion timestamp set issues exactly one       *)
(* broker call, a delete by id carrying the recorded identifier, and on its *)
(* success removes the finalizer and persists.                              *)

C2_DeleteByRecordedId ==
    [][\A s \in Services :
          (/\ last' = s
           /\ svc[s].Exists
           /\ CreateIsTrue(svc[s])
           /\ FinalizerName \in svc[s].Finalizers
           /\ svc[s].DeletionTimestamp
           /\ RecordedIdKey \in DOMAIN svc[s].Annotations)
          => /\ Len(calls') = 1
             /\ calls'[1].op = "delete"
             /\ calls'[1].id = GoString(svc[s].Annotations[RecordedIdKey])
             /\ (result' = "ok" =>
                    /\ FinalizerName \notin svc'[s].Finalizers
                    /\ Len(writes') = 1)]_vars

(* C3: at most one remote per identity. In every reachable state the broker *)
(* holds at most one endpoint service whose tags contain "kubernetes" and   *)
(* the UID of a given service (reconciles are serialized: each Reconcile is *)
(* one step).                                                               *)

C3_AtMostOneRemote ==
    \A s \in Services : Cardinality(Matches(remote, s)) <= 1

----------------------------------------------------------------------------
(* Vocabulary of the mirroring properties *)

\* a flag of a models.Service, unset meaning the default false
FlagOf(p) == p # Nil /\ p[1]

\* the endpoint service m carries the configuration derived from o
Mirrors(m, o) ==
    LET d == getBodyFromService(o).body
    IN  /\ m.Name = d.Name
        /\ m.Port = d.Port
        /\ m.IPAddresses = d.IPAddresses
        /\ m.Tags = d.Tags
        /\ FlagOf(m.ProxyProtocol) = FlagOf(d.ProxyProtocol)
        /\ FlagOf(m.RequireApproval) = FlagOf(d.RequireApproval)
        /\ m.Visibility = d.Visibility

\* s is tracked and not being deleted
TrackedLive(o) == o.Exists /\ CreateIsTrue(o) /\ ~o.DeletionTimestamp

(* C4: mirroring. After a Reconcile of a tracked, non-deleting service      *)
(* returns success, exactly one endpoint service with the service's         *)
(* correlation tags exists, and its name, port, addresses, tags,            *)
(* proxy-protocol, require-approval and visibility equal the values derived *)
(* from the service's current annotations, defaults included.               *)

C4_Mirroring ==
    \A s \in Services :
        (last = s /\ result = "ok" /\ TrackedLive(svc[s]))
        => /\ Cardinality(Matches(remote, s)) = 1
           /\ \A m \in Matches(remote, s) : Mirrors(m, svc[s])

(* C5: idempotence. If a Reconcile of a tracked, non-deleting service       *)
(* returns success and neither the service nor the broker is changed by     *)
(* anybody else, the Reconcile that follows immediately issues no broker    *)
(* create, update or delete call.                                           *)

C5_Idempotence ==
    [][\A s \in Services :
          (/\ last = s
           /\ result = "ok"
           /\ TrackedLive(svc[s])
           /\ last' = s)
          => BrokerWrites(calls') = {}]_vars

----------------------------------------------------------------------------
(* C6: ambiguous state. When the lookup by correlation tags returns two or  *)
(* more endpoint services, Reconcile returns an error, issues no broker     *)
(* create, update or delete call, and leaves the broker as it was; no       *)
(* later Reconcile of the service resolves the ambiguity either, whichever  *)
(* of its calls fail.                                                       *)

\* the Reconcile of the step looked up the broker and got an answer
LookedUp(log) == Len(log) >= 1 /\ log[1].op = "list" /\ log[1].ok

C6_AmbiguousIsError ==
    [][\A s \in Services :
          (last' = s /\ Cardinality(Matches(remote, s)) >= 2) =>
             \* the Reconcile that gets the ambiguous answer
             /\ LookedUp(calls') =>
                   /\ result' = "err"
                   /\ BrokerWrites(calls') = {}
                   /\ remote' = remote
             \* no Reconcile of the service, while it is not being deleted,
             \* resolves the ambiguity
             /\ ~svc[s].DeletionTimestamp => remote' = remote]_vars

\* a Reconcile has just met two matches
C6_Witness ==
    \E s \in Services :
        /\ last = s
        /\ LookedUp(calls)
        /\ Cardinality(Matches(remote, s)) >= 2
        /\ result = "err"

(* C7: for a service whose create annotation is absent or not "true",      *)
(* Reconcile is a no-op: no broker call, no write to the service, nothing   *)
(* changed in the service or the broker, whether or not the deletion        *)
(* timestamp is set.                                                        *)

C7_UntrackedNoOp ==
    [][\A s \in Services :
          (/\ last' = s
           /\ \/ CreateKey \notin DOMAIN svc[s].Annotations
              \/ svc[s].Annotations[CreateKey] # <<"true">>)
          => /\ calls' = <<>>
             /\ writes' = <<>>
             /\ svc' = svc
             /\ remote' = remote
             /\ result' = "ok"]_vars

\* a Reconcile has just returned for a service that holds the finalizer, is
\* being deleted and has its create annotation set to "false"
C7_Witness ==
    \E s \in Services :
        /\ last = s
        /\ result = "ok"
        /\ svc[s].Exists
        /\ svc[s].DeletionTimestamp
        /\ FinalizerName \in svc[s].Finalizers
        /\ CreateKey \in DOMAIN svc[s].Annotations
        /\ svc[s].Annotations[CreateKey] = <<"false">>
        /\ calls = <<>>

----------------------------------------------------------------------------
(* C8: the finalizer is removed only in a Reconcile in which the deletion   *)
(* timestamp is set and remote cleanup returned without error, that is the  *)
(* delete call succeeded or no identifier was recorded; and if the broker   *)
(* delete call fails, the finalizer stays, no local write is made and the   *)
(* error is returned.                                                       *)

DeleteCalls(log, ok) == {i \in 1..Len(log) : log[i].op = "delete" /\ log[i].ok = ok}

FinalizerRemoved(s) ==
    FinalizerName \in svc[s].Finalizers /\ FinalizerName \notin svc'[s].Finalizers

\* a failed delete call keeps the finalizer, writes nothing, returns the error
FailedDeleteKeeps(s) ==
    DeleteCalls(calls', FALSE) # {}
    => /\ FinalizerName \in svc'[s].Finalizers
       /\ writes' = <<>>
       /\ result' = "err"

C8_FinalizerRemoval ==
    [][\A s \in Services :
          last' = s =>
             /\ FinalizerRemoved(s) =>
                   /\ svc[s].DeletionTimestamp
                   /\ \/ DeleteCalls(calls', TRUE) # {}
                      \/ RecordedIdKey \notin DOMAIN svc[s].Annotations
             /\ FailedDeleteKeeps(s)]_vars

\* what the code does guarantee: removal only on the deletion path, after
\* deleteEndpointService returned nil, which it also does when the
\* annotation it reads, <prefix>/id, is absent
C8_RemovalAfterCleanupReturned ==
    [][\A s \in Services :
          last' = s =>
             /\ FinalizerRemoved(s) =>
                   /\ svc[s].DeletionTimestamp
                   /\ \/ DeleteCalls(calls', TRUE) # {}
                      \/ makeAnnotation(AnnotationKey, "id") \notin DOMAIN svc[s].Annotations
             /\ FailedDeleteKeeps(s)]_vars

(* C9: tag-set correlation. The desired tags of every service contain       *)
(* "kubernetes" and the service's UID, and the lookup by the tag pair of a  *)
(* service never returns an endpoint service created for another service.   *)

C9_TagCorrelation ==
    /\ \A s \in Services :
          LET b == getBodyFromService(svc[s])
          IN  ~b.err => {"kubernetes", UIDOf(s)} \subseteq Range(b.body.Tags)
    /\ \A a \in Services : \A b \in Services \ {a} :
          Matches(remote, a) \cap CreatedFor(remote, b) = {}

(* C10: IP equivalence in serviceEqual. With all other fields equal, the    *)
(* desired addresses {"10.0.0.1"} and the remote addresses {"10.0.0.1/32"}  *)
(* compare equal, and desired {"10.0.0.1"} and remote {"10.0.0.2"} compare  *)
(* unequal.                                                                 *)

\* the pair differs in nothing but the addresses (and the identifier)
OnlyIPsDiffer(s1, s2) ==
    [s2 EXCEPT !.IPAddresses = s1.IPAddresses, !.ID = s1.ID] = s1

C10_IPEquivalence ==
    (probe.done /\ OnlyIPsDiffer(probe.s1, probe.s2)
        /\ probe.s1.IPAddresses = <<"10.0.0.1">>)
    => /\ probe.s2.IPAddresses = <<"10.0.0.1/32">> => probe.equal
       /\ probe.s2.IPAddresses = <<"10.0.0.2">> => ~probe.equal

----------------------------------------------------------------------------
(* getBodyFromService on its own: a Service is drawn from bounded sets of   *)
(* port annotations, declared ports and tag annotations, and its body built *)

\* values of the archer-port annotation, one character per chunk
PortSamples ==
    {<<"8", "0">>, <<"4", "4", "3">>, <<"0">>, <<"-", "1">>, <<"+", "8", "0">>,
     <<"0", "0", "8", "0">>, <<"6", "5", "5", "3", "6">>,
     <<>>, <<"a", "b", "c">>, <<"8", "o">>, <<"8", "0", " ">>, <<"-">>,
     <<"8", ".", "0">>,
     \* 2^31 - 1, 2^31, -2^31, -2^31 - 1, 2^32 + 80
     <<"2", "1", "4", "7", "4", "8", "3", "6", "4", "7">>,
     <<"2", "1", "4", "7", "4", "8", "3", "6", "4", "8">>,
     <<"-", "2", "1", "4", "7", "4", "8", "3", "6", "4", "8">>,
     <<"-", "2", "1", "4", "7", "4", "8", "3", "6", "4", "9">>,
     <<"4", "2", "9", "4", "9", "6", "7", "3", "7", "6">>,
     \* 2^63 - 1, 2^63, 2^64 + 80
     <<"9", "2", "2", "3", "3", "7", "2", "0", "3", "6", "8", "5", "4", "7", "7", "5", "8", "0", "7">>,
     <<"9", "2", "2", "3", "3", "7", "2", "0", "3", "6", "8", "5", "4", "7", "7", "5", "8", "0", "8">>,
     <<"1", "8", "4", "4", "6", "7", "4", "4", "0", "7", "3", "7", "0", "9", "5", "5", "1", "6", "9", "6">>}

\* svc.Spec.Ports
PortLists == {<<>>, <<80, 443>>, <<443>>, <<8080, 80>>}

\* values of the archer-tags annotation
TagSamples ==
    {<<"a">>, <<"a", " ", "b">>, <<"b", " ", "a">>, <<"a", " ", " ", "b">>,
     <<" ", "a">>, <<"a", " ">>, <<>>}

\* the annotations of a sample: the create annotation, and each of the port
\* and tags annotations when given (present = <<value>>, absent = <<>>)
SampleAnnotations(port, tags) ==
    [k \in {makeAnnotation(AnnotationKey, AnnotationEndpointServiceCreate)}
           \cup (IF port = Nil THEN {}
                 ELSE {makeAnnotation(AnnotationKey, AnnotationEndpointServicePort)})
           \cup (IF tags = Nil THEN {}
                 ELSE {makeAnnotation(AnnotationKey, AnnotationEndpointServiceTags)}) |->
        IF k = makeAnnotation(AnnotationKey, AnnotationEndpointServicePort) THEN port[1]
        ELSE IF k = makeAnnotation(AnnotationKey, AnnotationEndpointServiceTags) THEN tags[1]
        ELSE <<"true">>]

BodyInputs ==
    {[done |-> FALSE,
      o |-> [NewService("A", {}) EXCEPT !.Ports = ports,
                                        !.Annotations = SampleAnnotations(port, tags)]] :
        port \in {Nil} \cup {Ptr(v) : v \in PortSamples},
        ports \in PortLists,
        tags \in {Nil} \cup {Ptr(v) : v \in TagSamples}}

InitBody ==
    /\ svc = [s \in Services |-> NewService(s, {})]
    /\ remote = {}
    /\ nextId = 1
    /\ last = "none"
    /\ calls = <<>>
    /\ writes = <<>>
    /\ result = "none"
    /\ owner = {}
    /\ probe \in BodyInputs
    /\ inv = NoInvocations

\* the call of getBodyFromService(svc) in create/updateEndpointService
Extract ==
    /\ ~probe.done
    /\ probe' = [done |-> TRUE, o |-> probe.o, out |-> getBodyFromService(probe.o)]
    /\ UNCHANGED <<svc, remote, nextId, last, calls, writes, result, owner, inv>>

SpecBody == InitBody /\ [][Extract]_vars

----------------------------------------------------------------------------
(* Vocabulary of the port properties: integers written in decimal, compared *)
(* digit by digit, so that a value of any size has its exact meaning        *)

PortKey == makeAnnotation(AnnotationKey, AnnotationEndpointServicePort)

\* the characters after an optional sign
Unsigned(chars) ==
    IF chars # <<>> /\ Head(chars) \in {"+", "-"} THEN Tail(chars) ELSE chars

\* an optional sign followed by at least one decimal digit
IsIntegerSyntax(chars) ==
    /\ Unsigned(chars) # <<>>
    /\ \A i \in 1..Len(Unsigned(chars)) : Unsigned(chars)[i] \in DigitChars

RECURSIVE StripZeros(_)
StripZeros(d) == IF Len(d) > 1 /\ Head(d) = "0" THEN StripZeros(Tail(d)) ELSE d

\* the integer a decimal string denotes: its sign and its digits without
\* leading zeros
Canonical(chars) ==
    [neg |-> chars # <<>> /\ Head(chars) = "-" /\ StripZeros(Unsigned(chars)) # <<"0">>,
     digits |-> StripZeros(Unsigned(chars))]

RECURSIVE DigitsOfNat(_)
DigitsOfNat(n) ==
    IF n < 10 THEN <<ToString(n)>>
    ELSE Append(DigitsOfNat(n \div 10), ToString(n % 10))

\* the digits of the magnitude of a negative n, computed without negating n
DigitsOfNeg(n, unit) ==
    IF n + unit = 0 THEN <<ToString(unit)>>
    ELSE Append(DigitsOfNat(0 - ((n + unit) \div 10)), ToString(unit))

\* the integer n, written the same way
DecimalOf(n) ==
    [neg |-> n < 0,
     digits |-> IF n >= 0 THEN DigitsOfNat(n) ELSE DigitsOfNeg(n, (10 - (n % 10)) % 10)]

\* d1 <= d2 for digit strings of the same length
RECURSIVE DigitsLeq(_, _)
DigitsLeq(d1, d2) ==
    IF d1 = <<>> THEN TRUE
    ELSE IF Head(d1) # Head(d2) THEN DigitVal(Head(d1)) < DigitVal(Head(d2))
    ELSE DigitsLeq(Tail(d1), Tail(d2))

\* 2^63 - 1 and 2^63, the largest magnitudes of a Go int
MaxIntDigits ==
    <<"9", "2", "2", "3", "3", "7", "2", "0", "3", "6", "8", "5", "4", "7", "7", "5", "8", "0", "7">>
MinIntDigits ==
    <<"9", "2", "2", "3", "3", "7", "2", "0", "3", "6", "8", "5", "4", "7", "7", "5", "8", "0", "8">>

\* the integer fits a Go int
FitsInt(c) ==
    \/ Len(c.digits) < Len(MaxIntDigits)
    \/ /\ Len(c.digits) = Len(MaxIntDigits)
       /\ DigitsLeq(c.digits, IF c.neg THEN MinIntDigits ELSE MaxIntDigits)

\* the value parses as an integer
Parsable(chars) == IsIntegerSyntax(chars) /\ FitsInt(Canonical(chars))

\* 2^31 - 1 and 2^31, the largest magnitudes of an int32
MaxInt32Digits == <<"2", "1", "4", "7", "4", "8", "3", "6", "4", "7">>
MinInt32Digits == <<"2", "1", "4", "7", "4", "8", "3", "6", "4", "8">>

FitsInt32(c) ==
    \/ Len(c.digits) < Len(MaxInt32Digits)
    \/ /\ Len(c.digits) = Len(MaxInt32Digits)
       /\ DigitsLeq(c.digits, IF c.neg THEN MinInt32Digits ELSE MaxInt32Digits)

\* the port rule for a Service o and the result out of getBodyFromService;
\* inRange: the integer value of the annotation is one the rule speaks about
PortRule(o, out, inRange) ==
    IF PortKey \in DOMAIN o.Annotations
    THEN IF ~Parsable(o.Annotations[PortKey]) THEN out.err
         ELSE inRange
              => /\ ~out.err
                 /\ DecimalOf(out.body.Port) = Canonical(o.Annotations[PortKey])
    ELSE IF Len(o.Ports) > 0 THEN ~out.err /\ out.body.Port = o.Ports[1]
    ELSE out.err

\* the port annotation of o is an integer within the 32-bit signed range
AnnotatedPortFitsInt32(o) ==
    /\ PortKey \in DOMAIN o.Annotations
    /\ IsIntegerSyntax(o.Annotations[PortKey])
    /\ FitsInt32(Canonical(o.Annotations[PortKey]))

(* C11: port rule of getBodyFromService. If the port annotation is present  *)
(* the desired port is its integer value, and a value that does not parse   *)
(* gives an error, whatever ports are declared; otherwise the desired port  *)
(* is the first declared port; with no declared port an error is returned.  *)

C11_PortRule ==
    (probe.done /\ "out" \in DOMAIN probe) => PortRule(probe.o, probe.out, TRUE)

\* the same rule for the annotation values within the 32-bit signed range
C11_PortRuleInt32 ==
    (probe.done /\ "out" \in DOMAIN probe) => PortRule(probe.o, probe.out, AnnotatedPortFitsInt32(probe.o))

----------------------------------------------------------------------------
(* C12: no failure is swallowed. If a broker call (list, create, update,    *)
(* delete) or a write of the service (finalizer add, finalizer remove,      *)
(* identifier annotation) fails during a Reconcile, the Reconcile returns   *)
(* an error and makes no further broker call or write. A Reconcile that     *)
(* does not find the service returns success with no call and no write.     *)

\* the positions, in the order of the run, of the failed calls and writes
FailedAt(log) == {log[i].at : i \in {j \in 1..Len(log) : ~log[j].ok}}

\* the positions of all calls and writes of a run
MadeAt(log) == {log[i].at : i \in 1..Len(log)}

\* a failed call or write is the last thing the run did, and the run
\* returned an error
FailureEndsRun ==
    \A f \in FailedAt(calls) \cup FailedAt(writes) :
        /\ result = "err"
        /\ \A n \in MadeAt(calls) \cup MadeAt(writes) : n <= f

\* the service of the Reconcile is not in the cluster
NotFoundIsNoOp ==
    \A s \in Services :
        (last' = s /\ ~svc[s].Exists)
        => /\ calls' = <<>>
           /\ writes' = <<>>
           /\ result' = "ok"
           /\ svc' = svc
           /\ remote' = remote

C12_NoFailureSwallowed == []FailureEndsRun /\ [][NotFoundIsNoOp]_vars

\* a Reconcile has just returned an error because the write of the
\* identifier annotation failed after the create call succeeded
C12_Witness ==
    /\ result = "err"
    /\ Len(calls) = 2
    /\ calls[2].op = "post"
    /\ calls[2].ok
    /\ Len(writes) >= 1
    /\ ~writes[Len(writes)].ok
    /\ writes[Len(writes)].at > calls[2].at

----------------------------------------------------------------------------
(* Reconcile step by step: two workers run Reconcile for the same service,  *)
(* each broker call and each r.Update being one step, so that invocations   *)
(* of one identity overlap. A worker keeps o, its in-memory svc, and base,  *)
(* the object as the API server held it when the worker last read or wrote  *)
(* it (its resourceVersion).                                                *)

Target == "A"

\* where Reconcile goes after r.Get returned o
AfterGet(o) ==
    IF ~o.Exists THEN "idle"
    ELSE IF ~getAnnotationBoolean(makeAnnotation(AnnotationKey, AnnotationEndpointServiceCreate), o, FALSE)
    THEN "idle"
    ELSE IF ~o.DeletionTimestamp
    THEN IF ~ContainsFinalizer(o, makeAnnotation(AnnotationKey, "finalizer"))
         THEN "addFinalizer" ELSE "list"
    ELSE IF /\ ContainsFinalizer(o, makeAnnotation(AnnotationKey, "finalizer"))
            /\ getAnnotationString(makeAnnotation(AnnotationKey, "id"), o).ok
    THEN "delete"
    ELSE "removeFinalizer"

\* the worker returns from Reconcile
Return(w) == inv' = [inv EXCEPT ![w] = Idle]

\* the worker goes on to the step pc with the in-memory object o
Goto(w, pc, o, base) == inv' = [inv EXCEPT ![w] = [pc |-> pc, o |-> o, base |-> base]]

\* r.Get(ctx, req.NamespacedName, svc)
Get(w) ==
    /\ inv[w].pc = "idle"
    /\ IF AfterGet(svc[Target]) = "idle" THEN Return(w)
       ELSE Goto(w, AfterGet(svc[Target]), svc[Target], svc[Target])
    /\ UNCHANGED <<svc, remote, nextId, last, calls, writes, result, owner, probe>>

\* r.Update(ctx, svc) of the object o2, after which Reconcile goes to next:
\* the API server refuses the write when the stored object is no longer the
\* one the worker read (a conflict), and the write may fail otherwise (~ok)
UpdateBy(w, o2, ok, next) ==
    IF ok /\ svc[Target] = inv[w].base
    THEN /\ svc' = [svc EXCEPT ![Target] = Persist(o2)]
         /\ IF next = "idle" THEN Return(w) ELSE Goto(w, next, Persist(o2), Persist(o2))
    ELSE /\ Return(w)
         /\ UNCHANGED svc

\* Reconcile: AddFinalizer and r.Update
AddFinalizerStep(w) ==
    /\ inv[w].pc = "addFinalizer"
    /\ \E ok \in BOOLEAN :
          UpdateBy(w, AddFinalizer(inv[w].o, makeAnnotation(AnnotationKey, "finalizer")), ok, "list")
    /\ UNCHANGED <<remote, nextId, last, calls, writes, result, owner, probe>>

\* where reconcileEndpointService goes with the items the lookup returned
AfterList(w, items, b) ==
    IF Cardinality(items) = 0
    THEN IF b.err THEN Return(w) ELSE Goto(w, "post", inv[w].o, inv[w].base)
    ELSE IF Cardinality(items) = 1
    THEN IF b.err \/ serviceEqual(b.body, CHOOSE m \in items : TRUE) THEN Return(w)
         ELSE inv' = [inv EXCEPT ![w] = [pc |-> "put", o |-> inv[w].o, base |-> inv[w].base,
                                         m |-> CHOOSE m \in items : TRUE]]
    ELSE Return(w)

\* reconcileEndpointService: r.Archer.Service.GetService
ListStep(w) ==
    /\ inv[w].pc = "list"
    /\ \E ok \in BOOLEAN :
          IF ok THEN AfterList(w, GetService(remote, <<"kubernetes", inv[w].o.UID>>),
                               getBodyFromService(inv[w].o))
          ELSE Return(w)
    /\ UNCHANGED <<svc, remote, nextId, last, calls, writes, result, owner, probe>>

\* createEndpointService: r.Archer.Service.PostService
PostStep(w) ==
    /\ inv[w].pc = "post"
    /\ \E ok \in BOOLEAN :
          IF ok
          THEN /\ nextId <= MaxIds
               /\ remote' = PostService(remote, nextId, getBodyFromService(inv[w].o).body)
               /\ nextId' = nextId + 1
               /\ owner' = owner \cup {<<IdName(nextId), Target>>}
               /\ Goto(w, "annotate",
                       SetAnnotation(inv[w].o, makeAnnotation(AnnotationKey, "archer-id"),
                                     <<IdName(nextId)>>),
                       inv[w].base)
          ELSE /\ Return(w)
               /\ UNCHANGED <<remote, nextId, owner>>
    /\ UNCHANGED <<svc, last, calls, writes, result, probe>>

\* createEndpointService: r.Update of the annotated service
AnnotateStep(w) ==
    /\ inv[w].pc = "annotate"
    /\ \E ok \in BOOLEAN : UpdateBy(w, inv[w].o, ok, "idle")
    /\ UNCHANGED <<remote, nextId, last, calls, writes, result, owner, probe>>

\* updateEndpointService: r.Archer.Service.PutServiceServiceID
PutStep(w) ==
    /\ inv[w].pc = "put"
    /\ \E ok \in BOOLEAN :
          remote' = IF ok THEN PutServiceServiceID(remote, inv[w].m.ID,
                                    ServiceUpdatable(getBodyFromService(inv[w].o).body))
                    ELSE remote
    /\ Return(w)
    /\ UNCHANGED <<svc, nextId, last, calls, writes, result, owner, probe>>

\* the identifier deleteEndpointService reads
DeleteId(o) == GoString(getAnnotationString(makeAnnotation(AnnotationKey, "id"), o).v)

\* deleteEndpointService: r.Archer.Service.DeleteServiceServiceID
DeleteStep(w) ==
    /\ inv[w].pc = "delete"
    /\ \E ok \in BOOLEAN :
          IF ok /\ \E m \in remote : m.ID = DeleteId(inv[w].o)
          THEN /\ remote' = DeleteServiceServiceID(remote, DeleteId(inv[w].o))
               /\ Goto(w, "removeFinalizer", inv[w].o, inv[w].base)
          ELSE /\ Return(w)
               /\ UNCHANGED remote
    /\ UNCHANGED <<svc, nextId, last, calls, writes, result, owner, probe>>

\* Reconcile: RemoveFinalizer and r.Update
RemoveFinalizerStep(w) ==
    /\ inv[w].pc = "removeFinalizer"
    /\ \E ok \in BOOLEAN :
          UpdateBy(w, RemoveFinalizer(inv[w].o, makeAnnotation(AnnotationKey, "finalizer")), ok, "idle")
    /\ UNCHANGED <<remote, nextId, last, calls, writes, result, owner, probe>>

\* the annotations the users write while the workers run
OverlapEdits ==
    {<<"id", <<"id1">>>>, <<AnnotationEndpointServicePort, <<"4", "4", "3">>>>}

\* the service is tracked; nothing has been reconciled yet
InitOverlap ==
    /\ svc = [s \in Services |->
                 IF s = Target
                 THEN SetAnnotation(NewService(s, {}),
                          makeAnnotation(AnnotationKey, AnnotationEndpointServiceCreate), <<"true">>)
                 ELSE NewService(s, {})]
    /\ remote = {}
    /\ nextId = 1
    /\ last = "none"
    /\ calls = <<>>
    /\ writes = <<>>
    /\ result = "none"
    /\ owner = {}
    /\ probe = NoProbe
    /\ inv = NoInvocations

NextOverlap ==
    \/ \E w \in Workers :
          \/ Get(w)
          \/ AddFinalizerStep(w)
          \/ ListStep(w)
          \/ PostStep(w)
          \/ AnnotateStep(w)
          \/ PutStep(w)
          \/ DeleteStep(w)
          \/ RemoveFinalizerStep(w)
    \/ \E e \in OverlapEdits : Annotate(Target, e)
    \/ DeleteService(Target)

SpecOverlap == InitOverlap /\ [][NextOverlap]_vars

(* C13: side-effect safety under at-least-once delivery. When Reconcile     *)
(* invocations of one service overlap in time, the broker never holds more  *)
(* than one endpoint service carrying that service's correlation tags.      *)

C13_OverlapSafe == Cardinality(Matches(remote, Target)) <= 1

----------------------------------------------------------------------------
(* C14: a Reconcile of a service that carries the create annotation, has    *)
(* its deletion timestamp set and no longer holds the finalizer is a no-op: *)
(* it issues no broker call and makes no write of the service.              *)

\* s is tracked, is being deleted and the finalizer is already removed
Released(o) ==
    /\ o.Exists
    /\ CreateIsTrue(o)
    /\ o.DeletionTimestamp
    /\ FinalizerName \notin o.Finalizers

C14_ReleasedNoOp ==
    [][\A s \in Services :
          (last' = s /\ Released(svc[s]))
          => /\ calls' = <<>>
             /\ writes' = <<>>]_vars

\* what the code does guarantee: no broker call, and a service left as it is
C14_ReleasedNoBrokerCall ==
    [][\A s \in Services :
          (last' = s /\ Released(svc[s]))
          => /\ calls' = <<>>
             /\ remote' = remote
             /\ svc' = svc]_vars

----------------------------------------------------------------------------
(* C15: tag comparison in serviceEqual is order-independent. With all other *)
(* fields equal, permuting the desired tag list or the remote tag list      *)
(* never changes the result; desired tags kubernetes, u1, a and remote tags *)
(* a, u1, kubernetes compare equal; tag lists of different size, or a       *)
(* desired tag missing from the remote list, compare unequal.               *)

\* the permutations of 1..n
Perms(n) == {f \in [1..n -> 1..n] : \A i, j \in 1..n : i # j => f[i] # f[j]}

Permute(q, f) == [i \in 1..Len(q) |-> q[f[i]]]

\* the pair differs in nothing but the tags (and the identifier)
OnlyTagsDiffer(s1, s2) ==
    [s2 EXCEPT !.Tags = s1.Tags, !.ID = s1.ID] = s1

\* the result for s1, s2 stays when either tag list is permuted
PermutationKeeps(s1, s2) ==
    /\ \A f \in Perms(Len(s1.Tags)) :
          serviceEqual([s1 EXCEPT !.Tags = Permute(s1.Tags, f)], s2) = serviceEqual(s1, s2)
    /\ \A f \in Perms(Len(s2.Tags)) :
          serviceEqual(s1, [s2 EXCEPT !.Tags = Permute(s2.Tags, f)]) = serviceEqual(s1, s2)

C15_TagOrderIndependence ==
    (probe.done /\ "s1" \in DOMAIN probe /\ OnlyTagsDiffer(probe.s1, probe.s2))
    => /\ probe.equal = serviceEqual(probe.s1, probe.s2)
       /\ PermutationKeeps(probe.s1, probe.s2)
       /\ Len(probe.s1.Tags) # Len(probe.s2.Tags) => ~probe.equal
       /\ ~(Range(probe.s1.Tags) \subseteq Range(probe.s2.Tags)) => ~probe.equal
       /\ (/\ Len(probe.s1.Tags) = Len(probe.s2.Tags)
           /\ Range(probe.s1.Tags) \subseteq Range(probe.s2.Tags)) => probe.equal

\* the two lists of the example have been compared and found equal
C15_Witness ==
    /\ probe.done
    /\ "s1" \in DOMAIN probe
    /\ OnlyTagsDiffer(probe.s1, probe.s2)
    /\ probe.s1.Tags = <<"kubernetes", "u1", "a">>
    /\ probe.s2.Tags = <<"a", "u1", "kubernetes">>
    /\ probe.equal

----------------------------------------------------------------------------
(* C16: decision table of the sync step on the normal path. Zero lookup     *)
(* matches lead to exactly one create call and no update, followed on       *)
(* success by writing the returned identifier into the service's            *)
(* annotations and persisting it; exactly one match leads to no broker      *)
(* write when serviceEqual reports equal and otherwise to exactly one       *)
(* update call addressed to the identifier of the matched endpoint service; *)
(* the sync step never issues a delete call.                                *)

CallsOf(log, op) == {i \in 1..Len(log) : log[i].op = op}

\* the identifiers of the endpoint services created in the step
CreatedIds == {m.ID : m \in {x \in remote' : \A y \in remote : y.ID # x.ID}}

\* zero matches: one create call, no update; after its success the
\* identifier is written to the annotations and the service persisted
ZeroMatchesCreate(s) ==
    /\ Cardinality(CallsOf(calls', "post")) = 1
    /\ CallsOf(calls', "put") = {}
    /\ \A i \in CallsOf(calls', "post") :
          calls'[i].ok =>
             /\ Len(writes') >= 1
             /\ writes'[Len(writes')].at = calls'[i].at + 1
             /\ writes'[Len(writes')].ok =>
                   /\ RecordedIdKey \in DOMAIN svc'[s].Annotations
                   /\ CreatedIds = {GoString(svc'[s].Annotations[RecordedIdKey])}

\* one match m: nothing when serviceEqual reports equal, else one update of m
OneMatchUpdate(s, m, b) ==
    /\ CallsOf(calls', "post") = {}
    /\ IF ~b.err /\ serviceEqual(b.body, m) THEN BrokerWrites(calls') = {}
       ELSE /\ Cardinality(CallsOf(calls', "put")) = 1
            /\ \A i \in CallsOf(calls', "put") : calls'[i].id = m.ID

DecisionTable(s) ==
    /\ CallsOf(calls', "delete") = {}
    /\ LookedUp(calls') =>
          /\ Cardinality(Matches(remote, s)) = 0 => ZeroMatchesCreate(s)
          /\ Cardinality(Matches(remote, s)) = 1 =>
                OneMatchUpdate(s, CHOOSE m \in Matches(remote, s) : TRUE,
                               getBodyFromService(svc[s]))

C16_DecisionTable ==
    [][\A s \in Services :
          (last' = s /\ TrackedLive(svc[s])) => DecisionTable(s)]_vars

\* the same table for the services whose desired spec has no validation error
C16_DecisionTableValidSpec ==
    [][\A s \in Services :
          (last' = s /\ TrackedLive(svc[s]) /\ ~getBodyFromService(svc[s]).err)
          => DecisionTable(s)]_vars

----------------------------------------------------------------------------
(* C17: deletion guard before creation. No broker create call is issued for *)
(* a service whose finalizer has not been persisted: on the normal path the *)
(* finalizer is added and persisted before the lookup and the creation; if  *)
(* that write fails, Reconcile returns the error without any broker call;   *)
(* when the finalizer is already present no finalizer write is made.        *)

\* the write that opens the run: the finalizer being persisted
FinalizerWrites(log) == {i \in 1..Len(log) : log[i].at = 1}

\* every create call of the step is made with the finalizer stored: it was
\* stored before the step or by the step's first write, and it still is
CreateHasFinalizer(s) ==
    \A i \in CallsOf(calls', "post") :
        /\ \/ FinalizerName \in svc[s].Finalizers
           \/ \E j \in FinalizerWrites(writes') : writes'[j].ok
        /\ calls'[i].ok => FinalizerName \in svc'[s].Finalizers

\* the finalizer is absent: it is written first, and a failure ends the run
AddedFirst(s) ==
    FinalizerName \notin svc[s].Finalizers
    => /\ FinalizerWrites(writes') # {}
       /\ \A j \in FinalizerWrites(writes') :
             IF writes'[j].ok
             THEN FinalizerName \in svc'[s].Finalizers
             ELSE calls' = <<>> /\ result' = "err" /\ svc' = svc

\* the finalizer is present: no write precedes the lookup
NotAddedTwice(s) ==
    FinalizerName \in svc[s].Finalizers
    => /\ FinalizerWrites(writes') = {}
       /\ (calls' # <<>> => calls'[1].op = "list" /\ calls'[1].at = 1)

C17_FinalizerBeforeCreate ==
    [][\A s \in Services :
          last' = s =>
             /\ CreateHasFinalizer(s)
             /\ TrackedLive(svc[s]) => (AddedFirst(s) /\ NotAddedTwice(s))]_vars

\* a Reconcile has just returned the error of the failed finalizer write
C17_Witness ==
    \E s \in Services :
        /\ last = s
        /\ TrackedLive(svc[s])
        /\ FinalizerName \notin svc[s].Finalizers
        /\ Len(writes) = 1
        /\ ~writes[1].ok
        /\ calls = <<>>
        /\ result = "err"

----------------------------------------------------------------------------
(* C18: order of the sync step. The desired spec is computed, and its       *)
(* validation error returned, before the lookup is called: a Reconcile of a *)
(* tracked service with a validation error (unparsable port annotation, no  *)
(* port available) returns the error without any broker call, whatever the  *)
(* broker holds.                                                            *)

\* s is tracked, not being deleted, and its desired spec has a validation error
Invalid(o) == TrackedLive(o) /\ getBodyFromService(o).err

C18_ValidateBeforeLookup ==
    [][\A s \in Services :
          (last' = s /\ Invalid(svc[s]))
          => /\ calls' = <<>>
             /\ result' = "err"]_vars

\* what the code does guarantee: an error, and no create, update or delete
C18_InvalidNoBrokerWrite ==
    [][\A s \in Services :
          (last' = s /\ Invalid(svc[s]))
          => /\ BrokerWrites(calls') = {}
             /\ remote' = remote
             /\ result' = "err"]_vars

----------------------------------------------------------------------------
(* C19: frame of the update. The update request built by                    *)
(* updateEndpointService carries exactly description, enablement,           *)
(* addresses, name, port, proxy-protocol, require-approval, tags and        *)
(* visibility, never the network id or the availability zone; an update     *)
(* leaves the network id and the availability zone of the endpoint service  *)
(* unchanged, also when the desired network id differs from the remote one. *)

UpdatableFields ==
    {"Description", "Enabled", "IPAddresses", "Name", "Port", "ProxyProtocol",
     "RequireApproval", "Tags", "Visibility"}

\* the request carries the fields of the desired body d, and no other
CarriesUpdatable(req, d) ==
    /\ DOMAIN req = UpdatableFields
    /\ req.Description = Ptr(d.Description)
    /\ req.Enabled = d.Enabled
    /\ req.IPAddresses = d.IPAddresses
    /\ req.Name = Ptr(d.Name)
    /\ req.Port = Ptr(d.Port)
    /\ req.ProxyProtocol = d.ProxyProtocol
    /\ req.RequireApproval = d.RequireApproval
    /\ req.Tags = d.Tags
    /\ req.Visibility = d.Visibility

\* the endpoint service id keeps its network id and availability zone
KeepsNetworkAndZone(id) ==
    \A m \in remote : \A m2 \in remote' :
        (m.ID = id /\ m2.ID = id)
        => /\ m2.NetworkID = m.NetworkID
           /\ m2.AvailabilityZone = m.AvailabilityZone

C19_UpdateFrame ==
    [][\A s \in Services :
          last' = s =>
             \A i \in CallsOf(calls', "put") :
                 /\ CarriesUpdatable(calls'[i].req, getBodyFromService(svc[s]).body)
                 /\ KeepsNetworkAndZone(calls'[i].id)
                 /\ \E m2 \in remote' : m2.ID = calls'[i].id]_vars

\* an update has just succeeded for a service whose desired network id and
\* availability zone both differ from those of its endpoint service
C19_Witness ==
    \E s \in Services :
        /\ last = s
        /\ result = "ok"
        /\ TrackedLive(svc[s])
        /\ \E i \in CallsOf(calls, "put") : calls[i].ok
        /\ \E m \in Matches(remote, s) :
              /\ m.NetworkID # getBodyFromService(svc[s]).body.NetworkID
              /\ m.AvailabilityZone # getBodyFromService(svc[s]).body.AvailabilityZone

----------------------------------------------------------------------------
(* C20: optional-field rule of serviceEqual. For every combination of set   *)
(* and unset values on the desired and the remote side, serviceEqual        *)
(* returns the result of the reference rule: name, description and port are *)
(* compared exactly, enablement is compared only when the desired side has  *)
(* a value, and network id, proxy-protocol, require-approval and visibility *)
(* are compared only when both sides have a value.                          *)

\* compared only when the desired side has a value
DesiredSetAgrees(p1, p2) == p1 # Nil => p1 = p2

\* compared only when both sides have a value
BothSetAgree(p1, p2) == (p1 # Nil /\ p2 # Nil) => p1 = p2

ReferenceRule(s1, s2) ==
    /\ s1.Name = s2.Name
    /\ s1.Description = s2.Description
    /\ s1.Port = s2.Port
    /\ DesiredSetAgrees(s1.Enabled, s2.Enabled)
    /\ BothSetAgree(s1.NetworkID, s2.NetworkID)
    /\ BothSetAgree(s1.ProxyProtocol, s2.ProxyProtocol)
    /\ BothSetAgree(s1.RequireApproval, s2.RequireApproval)
    /\ BothSetAgree(s1.Visibility, s2.Visibility)

\* the pair has the same addresses and the same tags
AddressesAndTagsAgree(s1, s2) ==
    s1.IPAddresses = s2.IPAddresses /\ s1.Tags = s2.Tags

\* a pair of the SpecEqual specification has been compared
Compared == probe.done /\ "s1" \in DOMAIN probe

C20_RuleWhereNoPanic ==
    (Compared /\ AddressesAndTagsAgree(probe.s1, probe.s2))
    => /\ probe.panic => (probe.s1.Enabled # Nil /\ probe.s2.Enabled = Nil)
       /\ ~probe.panic => probe.equal = ReferenceRule(probe.s1, probe.s2)

----------------------------------------------------------------------------
(* C21: tags extraction. The desired tags are the two correlation markers   *)
(* followed by the space-separated tokens of the archer-tags annotation, in *)
(* order; a value with several consecutive spaces, with leading or trailing *)
(* spaces, or an empty value adds no empty-string tag.                      *)

TagsKey == makeAnnotation(AnnotationKey, AnnotationEndpointServiceTags)

\* the tokens of a value: its maximal runs of characters other than a space
RECURSIVE TokensFrom(_, _)
TokensFrom(chunks, cur) ==
    IF chunks = <<>> THEN (IF cur = "" THEN <<>> ELSE <<cur>>)
    ELSE IF Head(chunks) = " "
    THEN (IF cur = "" THEN <<>> ELSE <<cur>>) \o TokensFrom(Tail(chunks), "")
    ELSE TokensFrom(Tail(chunks), cur \o Head(chunks))

Tokens(chunks) == TokensFrom(chunks, "")

\* the tags the rule gives for the Service o
TagsRule(o) ==
    IF TagsKey \in DOMAIN o.Annotations
    THEN <<"kubernetes", o.UID>> \o Tokens(o.Annotations[TagsKey])
    ELSE <<"kubernetes", o.UID>>

\* a body has been built for a sample
Extracted == probe.done /\ "out" \in DOMAIN probe /\ ~probe.out.err

C21_TagsExtraction ==
    Extracted
    => /\ probe.out.body.Tags = TagsRule(probe.o)
       /\ \A i \in 1..Len(probe.out.body.Tags) : probe.out.body.Tags[i] # ""

\* the value is made of non-empty words with one space between them
SingleSpaced(chunks) ==
    /\ chunks # <<>>
    /\ Head(chunks) # " "
    /\ chunks[Len(chunks)] # " "
    /\ \A i \in 1..(Len(chunks) - 1) : ~(chunks[i] = " " /\ chunks[i + 1] = " ")

\* what the code does guarantee: the rule for the values that are absent or
\* single-spaced, and the two markers in front in every case
C21_TagsSingleSpaced ==
    Extracted
    => /\ SubSeq(probe.out.body.Tags, 1, 2) = <<"kubernetes", probe.o.UID>>
       /\ (TagsKey \in DOMAIN probe.o.Annotations
              => SingleSpaced(probe.o.Annotations[TagsKey]))
          => probe.out.body.Tags = TagsRule(probe.o)

----------------------------------------------------------------------------
(* C22: identifier recording. After a Reconcile of a tracked, non-deleting  *)
(* service returns success, if an endpoint service with the service's       *)
(* correlation tags exists then the service carries the identifier          *)
(* annotation holding that endpoint service's identifier; also when the     *)
(* create call succeeded in an earlier Reconcile whose identifier write     *)
(* failed, and the Reconcile was retried.                                   *)

\* the service o carries the identifier of one of the endpoint services ms
RecordsOneOf(o, ms) ==
    /\ RecordedIdKey \in DOMAIN o.Annotations
    /\ \E m \in ms : m.ID = GoString(o.Annotations[RecordedIdKey])

C22_IdentifierRecorded ==
    \A s \in Services :
        (last = s /\ result = "ok" /\ TrackedLive(svc[s]) /\ Matches(remote, s) # {})
        => RecordsOneOf(svc[s], Matches(remote, s))

\* what the code does guarantee: the identifier is recorded by the
\* Reconcile whose create call and annotation write both succeed, and a
\* recorded identifier names an endpoint service with the correlation tags
C22_RecordedByCreate ==
    \A s \in Services :
        (last = s /\ result = "ok" /\ TrackedLive(svc[s]))
        => /\ (\E i \in CallsOf(calls, "post") : calls[i].ok)
              => RecordsOneOf(svc[s], Matches(remote, s))
           /\ RecordedIdKey \in DOMAIN svc[s].Annotations
              => RecordsOneOf(svc[s], Matches(remote, s))

----------------------------------------------------------------------------
(* C23: deletion makes progress. Under a manager that keeps delivering      *)
(* requests and a broker and API server that do not fail forever, every     *)
(* service that carries the finalizer and has its deletion timestamp set    *)
(* eventually has the finalizer removed, also when its annotations were     *)
(* edited between being tracked and being deleted, for example the create   *)
(* annotation removed or set to "false".                                    *)

\* the service holds the finalizer while it is being deleted
HeldInDeletion(s) ==
    svc[s].Exists /\ svc[s].DeletionTimestamp /\ FinalizerName \in svc[s].Finalizers

\* the finalizer is gone, with the object or from it
FinalizerGone(s) == ~svc[s].Exists \/ FinalizerName \notin svc[s].Finalizers

C23_DeletionProgress ==
    \A s \in Services : HeldInDeletion(s) ~> FinalizerGone(s)

\* the identifier deleteEndpointService reads names no endpoint service
DanglingDeleteId(o, rem) ==
    /\ getAnnotationString(makeAnnotation(AnnotationKey, "id"), o).ok
    /\ \A m \in rem : m.ID # DeleteId(o)

\* what the code does guarantee: the finalizer is removed from a service
\* whose create annotation is still "true" when it is deleted, unless its
\* id annotation names an endpoint service the broker does not know
C23_TrackedDeletionProgress ==
    \A s \in Services :
        (HeldInDeletion(s) /\ CreateIsTrue(svc[s]) /\ ~DanglingDeleteId(svc[s], remote))
        ~> FinalizerGone(s)

----------------------------------------------------------------------------
(* C24: port annotation range. For every port annotation value that parses  *)
(* as an integer, the desired port getBodyFromService produces is           *)
(* numerically equal to that integer; a value outside the 32-bit signed     *)
(* range is never silently wrapped modulo 2^32 into a different port.       *)

\* getBodyFromService has run on a Service whose port annotation parses
ParsedPort ==
    /\ probe.done
    /\ "out" \in DOMAIN probe
    /\ PortKey \in DOMAIN probe.o.Annotations
    /\ Parsable(probe.o.Annotations[PortKey])

\* the desired port is the integer the annotation denotes
PortIsExact == DecimalOf(probe.out.body.Port) = Canonical(probe.o.Annotations[PortKey])

C24_PortRange ==
    ParsedPort
    => /\ ~probe.out.err => PortIsExact
       /\ ~FitsInt32(Canonical(probe.o.Annotations[PortKey])) => probe.out.err

\* what the code does guarantee: a value within the 32-bit signed range is
\* taken exactly; a value beyond it is accepted and gives another port
C24_PortExactWithinInt32 ==
    ParsedPort
    => /\ ~probe.out.err
       /\ PortIsExact <=> FitsInt32(Canonical(probe.o.Annotations[PortKey]))

====
